---- MODULE Spec2Model ----
(***************************************************************************)
(* CampusNav backend: the presence-tracking ingestion path.                *)
(*                                                                         *)
(*   services/mqttService.js      handleMessage  (validator + normalizer)  *)
(*   routes/scannerRoutes.js      POST /api/scanner/update                 *)
(*   services/serialScannerListener.js  processSerialData                  *)
(*   services/locationService.js  upsertFacultyLocation                    *)
(*   models/facultylocation.js    FacultyLocationSchema                    *)
(*                                                                         *)
(* Strings are sequences of one-character strings, so that trim() and      *)
(* startsWith() are computed.  A JSON/JS value is a record                 *)
(*   [t |-> typeof-like tag, n |-> number, s |-> string, k |-> array len]  *)
(* with the slots a tag does not use left at 0 / <<>>.                     *)
(***************************************************************************)
EXTENDS Integers, Sequences, FiniteSets, Bags

VARIABLES
    store,      \* the facultyLocations collection: a set of documents
    inflight,   \* findOneAndUpdate calls awaiting the database, per slot
    now,        \* the wall clock read by new Date()
    inbox,      \* the MQTT payload handed to the "message" event, not yet handled
    messageCount, \* mqttService.js messageCount
    errorCount,   \* mqttService.js errorCount
    proc,       \* the Node process: "up" or "down"
    mqttLog,    \* the last line handleMessage wrote to the console
    served,     \* REST requests and serial lines taken so far
    \* the scanner (esp32_firmware/CampusNavScanner/CampusNavScanner.ino)
    phase,          \* where the firmware stands: "boot", "scan", "wifi", "mqtt", "publish", "sleep"
    detections,     \* detections[0 .. detectionCount-1]; detectionCount is its length
    wifiFailCount,  \* wifiFailCount, saved to flash at every change
    credentials,    \* WiFi credentials are saved in flash
    attempts,       \* mqttClient.connect() calls made in this cycle
    heard,          \* the tag advertisements accepted in this cycle, per facultyId
    published,      \* the detections handed to mqttClient.publish() in this cycle
    cycle,          \* a tag telling a scan cycle from the one before
    streak,         \* cycles in a row, up to now, in which WiFi failed
    \* the serial listener (services/serialScannerListener.js)
    serialPort,         \* serialPort: 0 for null, or the number of the port object
    ports,              \* the SerialPort objects created so far, with their state
    isConnected,        \* isConnected
    reconnectTimer,     \* reconnectTimer holds a timer handle
    timers,             \* setTimeout callbacks pending in the event loop
    reconnectAttempts,  \* reconnectAttempts
    stopped,            \* stopSerialListener has been called
    \* the MQTT transport (services/mqttService.js, publishDetection of the firmware)
    mqttStarted,    \* startMqttClient has been called
    client,         \* client: "null", "active", or "ended" after client.end(true)
    connected,      \* connected
    lastEvent,      \* the latest of connect / reconnect / close / offline / stop
    subscription,   \* what the broker holds for the backend's session
    online,         \* the scanners connected to the broker
    wire,           \* publications the broker has forwarded, on their way to the backend
    sent,           \* the publications made while the backend was subscribed
    delivered       \* the publications handed to the "message" handler

backendVars == <<store, inflight, now, inbox, messageCount, errorCount, proc, mqttLog, served>>

scannerVars ==
    <<phase, detections, wifiFailCount, credentials, attempts, heard, published, cycle, streak>>

serialVars ==
    <<serialPort, ports, isConnected, reconnectTimer, timers, reconnectAttempts, stopped>>

mqttVars ==
    <<mqttStarted, client, connected, lastEvent, subscription, online, wire, sent, delivered>>

linkVars == <<serialVars, mqttVars>>

vars == <<backendVars, scannerVars, linkVars>>

-----------------------------------------------------------------------------
(* Bounds of the model *)

MaxTime == 1
MaxCount == 3

-----------------------------------------------------------------------------
(* JavaScript values *)

Undef     == [t |-> "undefined", n |-> 0, s |-> <<>>, k |-> 0]
Null      == [t |-> "null",      n |-> 0, s |-> <<>>, k |-> 0]
Obj       == [t |-> "object",    n |-> 0, s |-> <<>>, k |-> 0]
Num(i)    == [t |-> "number",    n |-> i, s |-> <<>>, k |-> 0]
Str(x)    == [t |-> "string",    n |-> 0, s |-> x,    k |-> 0]
Bool(b)   == [t |-> "boolean",   n |-> IF b THEN 1 ELSE 0, s |-> <<>>, k |-> 0]
Arr0      == [t |-> "array",     n |-> 0, s |-> <<>>, k |-> 0]
Arr1(i)   == [t |-> "array",     n |-> i, s |-> <<>>, k |-> 1]

\* A JS number: NaN or an integer.
NaN       == [nan |-> TRUE,  n |-> 0]
Fin(i)    == [nan |-> FALSE, n |-> i]

Digits == <<"0", "1", "2", "3", "4", "5", "6", "7", "8", "9">>

IsDigit(c) == \E i \in 1..10 : Digits[i] = c

DigitVal(c) == (CHOOSE i \in 1..10 : Digits[i] = c) - 1

IsSpace(c) == c = " "

RECURSIVE TrimStart(_)
TrimStart(x) ==
    IF x # <<>> /\ IsSpace(Head(x)) THEN TrimStart(Tail(x)) ELSE x

RECURSIVE TrimEnd(_)
TrimEnd(x) ==
    IF x # <<>> /\ IsSpace(x[Len(x)]) THEN TrimEnd(SubSeq(x, 1, Len(x) - 1)) ELSE x

\* String.prototype.trim
Trim(x) == TrimEnd(TrimStart(x))

\* String.prototype.startsWith
StartsWith(x, p) == Len(x) >= Len(p) /\ SubSeq(x, 1, Len(p)) = p

RECURSIVE DigitsValue(_)
DigitsValue(x) ==
    IF x = <<>> THEN 0 ELSE 10 * DigitsValue(SubSeq(x, 1, Len(x) - 1)) + DigitVal(x[Len(x)])

AllDigits(x) == x # <<>> /\ \A i \in 1..Len(x) : IsDigit(x[i])

\* Number(<string>): whitespace is trimmed, "" is 0, a decimal integer literal
\* is its value, anything else is NaN.
StringToNumber(x) ==
    LET y == Trim(x) IN
    IF y = <<>> THEN Fin(0)
    ELSE IF AllDigits(y) THEN Fin(DigitsValue(y))
    ELSE IF Head(y) = "-" /\ AllDigits(Tail(y)) THEN Fin(0 - DigitsValue(Tail(y)))
    ELSE IF Head(y) = "+" /\ AllDigits(Tail(y)) THEN Fin(DigitsValue(Tail(y)))
    ELSE NaN

RECURSIVE NatToString(_)
NatToString(i) ==
    IF i < 10 THEN <<Digits[i + 1]>> ELSE NatToString(i \div 10) \o <<Digits[(i % 10) + 1]>>

IntToString(i) == IF i < 0 THEN <<"-">> \o NatToString(0 - i) ELSE NatToString(i)

\* Number(v)
ToNumber(v) ==
    CASE v.t = "number"    -> Fin(v.n)
      [] v.t = "string"    -> StringToNumber(v.s)
      [] v.t = "boolean"   -> Fin(v.n)
      [] v.t = "null"      -> Fin(0)
      [] v.t = "array"     -> IF v.k = 0 THEN Fin(0) ELSE Fin(v.n)
      [] v.t = "undefined" -> NaN
      [] OTHER             -> NaN

\* String(v)
StringOf(v) ==
    CASE v.t = "string"    -> v.s
      [] v.t = "number"    -> IntToString(v.n)
      [] v.t = "boolean"   -> IF v.n = 1 THEN <<"t", "r", "u", "e">> ELSE <<"f", "a", "l", "s", "e">>
      [] v.t = "null"      -> <<"n", "u", "l", "l">>
      [] v.t = "array"     -> IF v.k = 0 THEN <<>> ELSE IntToString(v.n)
      [] v.t = "undefined" -> <<"u", "n", "d", "e", "f", "i", "n", "e", "d">>
      [] OTHER             -> <<"[", "o", "b", "j", "e", "c", "t", " ", "O", "b", "j", "e", "c", "t", "]">>

\* The truthiness test behind !v and v ? a : b
Truthy(v) ==
    CASE v.t = "undefined" -> FALSE
      [] v.t = "null"      -> FALSE
      [] v.t = "boolean"   -> v.n = 1
      [] v.t = "number"    -> v.n # 0
      [] v.t = "string"    -> v.s # <<>>
      [] OTHER             -> TRUE

\* v || null
OrNull(v) == IF Truthy(v) THEN v ELSE Null

-----------------------------------------------------------------------------
(* Wire input *)

\* A detection as it arrives: five properties, each any JS value (Undef = absent).
Det(f, tg, sc, r, rs) ==
    [facultyId |-> f, tagId |-> tg, scannerId |-> sc, room |-> r, rssi |-> rs]

NoDet == Det(Undef, Undef, Undef, Undef, Undef)

\* A transport payload: text that is not JSON ("badjson"), or JSON text for
\* null, a number, a string, an array, or an object with the properties det.
Payload(kind, d) == [kind |-> kind, det |-> d]

None == Payload("none", NoDet)

\* JSON.parse(payload.toString("utf-8")): ok = FALSE when it throws SyntaxError.
JsonParse(p) == [ok |-> p.kind # "badjson", kind |-> p.kind, det |-> p.det]

\* const { facultyId, room, rssi, scannerId, tagId } = data;
\* destructuring null throws TypeError; a number, string or array has none of
\* the five properties.
Destructure(data) ==
    IF data.kind = "null" THEN [throws |-> TRUE, det |-> NoDet]
    ELSE IF data.kind = "object" THEN [throws |-> FALSE, det |-> data.det]
    ELSE [throws |-> FALSE, det |-> NoDet]

-----------------------------------------------------------------------------
(* mqttService.js handleMessage: parse -> validate -> sanitize *)

FAC_PREFIX == <<"F", "A", "C", "_">>
SC_PREFIX  == <<"S", "C", "_">>
RSSI_MIN == -120
RSSI_MAX == 0

\* Faulty variant: rssi is tested like the other fields, so 0 counts as missing.
MissingRequired_falsyRssi(d) ==
    \/ ~Truthy(d.facultyId)
    \/ ~Truthy(d.room)
    \/ ~Truthy(d.rssi)
    \/ ~Truthy(d.scannerId)

\* if (!facultyId || !room || rssi === undefined || !scannerId)
MissingRequired(d) ==
    \/ ~Truthy(d.facultyId)
    \/ ~Truthy(d.room)
    \/ d.rssi.t = "undefined"
    \/ ~Truthy(d.scannerId)

\* if (typeof facultyId !== "string" || typeof room !== "string" || typeof scannerId !== "string")
BadTypes(d) ==
    \/ d.facultyId.t # "string"
    \/ d.room.t # "string"
    \/ d.scannerId.t # "string"

\* Stage 3: the clean* constants and numericRssi
Sanitize(d) ==
    [ cleanFacultyId |-> Trim(StringOf(d.facultyId)),
      cleanRoom      |-> Trim(StringOf(d.room)),
      cleanScannerId |-> Trim(StringOf(d.scannerId)),
      cleanTagId     |-> IF Truthy(d.tagId) THEN Str(Trim(StringOf(d.tagId))) ELSE Null,
      numericRssi    |-> ToNumber(d.rssi) ]

\* Faulty variant: the upper end of the range is not tested.
BadRssi_noUpper(r) == r.nan \/ r.n < RSSI_MIN

\* if (isNaN(numericRssi) || numericRssi < -120 || numericRssi > 0)
BadRssi(r) == r.nan \/ r.n < RSSI_MIN \/ r.n > RSSI_MAX

\* if (!cleanFacultyId.startsWith("FAC_"))
BadFacultyId(x) == ~StartsWith(x, FAC_PREFIX)

\* if (!cleanScannerId.startsWith("SC_"))
BadScannerId(x) == ~StartsWith(x, SC_PREFIX)

\* The outcome of the synchronous part of handleMessage for payload p:
\* the return (or throw) it takes, in the order of the code.
Validate(p) ==
    LET data == JsonParse(p)
        dd   == Destructure(data)
        d    == dd.det
        c    == Sanitize(d)
    IN  IF ~data.ok THEN "invalid_json"
        ELSE IF dd.throws THEN "throws"
        ELSE IF MissingRequired(d) THEN "missing_fields"
        ELSE IF BadTypes(d) THEN "invalid_types"
        ELSE IF BadRssi(c.numericRssi) THEN "invalid_rssi"
        ELSE IF BadFacultyId(c.cleanFacultyId) THEN "invalid_facultyId"
        ELSE IF BadScannerId(c.cleanScannerId) THEN "invalid_scannerId"
        ELSE "accepted"

\* The argument handleMessage passes to upsertFacultyLocation.
MqttUpsertArg(p) ==
    LET c == Sanitize(p.det) IN
    Det(Str(c.cleanFacultyId), c.cleanTagId, Str(c.cleanScannerId),
        Str(c.cleanRoom), Num(c.numericRssi.n))

-----------------------------------------------------------------------------
(* models/facultylocation.js and the findOneAndUpdate call of locationService.js *)

\* Faulty variant: the schema declares no unique index.
UniqueIndex_off == FALSE

\* facultyId: { unique: true, index: true }
UniqueIndex == TRUE

\* Mongoose cast to the schema type String: [ok, v] with v Null or a string value.
CastString(v) ==
    CASE v.t = "string"    -> [ok |-> TRUE,  v |-> v]
      [] v.t = "number"    -> [ok |-> TRUE,  v |-> Str(IntToString(v.n))]
      [] v.t = "boolean"   -> [ok |-> TRUE,  v |-> Str(StringOf(v))]
      [] v.t = "null"      -> [ok |-> TRUE,  v |-> Null]
      [] v.t = "undefined" -> [ok |-> TRUE,  v |-> Null]
      [] OTHER             -> [ok |-> FALSE, v |-> Null]

\* Mongoose cast to the schema type Number: [ok, v] with v Null or a number value.
CastNumber(v) ==
    CASE v.t = "number"    -> [ok |-> TRUE,  v |-> v]
      [] v.t = "null"      -> [ok |-> TRUE,  v |-> Null]
      [] v.t = "undefined" -> [ok |-> TRUE,  v |-> Null]
      [] v.t = "boolean"   -> [ok |-> TRUE,  v |-> Num(v.n)]
      [] v.t = "string"    ->
            IF v.s = <<>> THEN [ok |-> TRUE, v |-> Null]
            ELSE IF StringToNumber(v.s).nan THEN [ok |-> FALSE, v |-> Null]
            ELSE [ok |-> TRUE, v |-> Num(StringToNumber(v.s).n)]
      [] OTHER             -> [ok |-> FALSE, v |-> Null]

\* required: true  (a String path also refuses the empty string)
Required(v) == v.t # "null" /\ ~(v.t = "string" /\ v.s = <<>>)

\* What upsertFacultyLocation(data) hands to the database at time t:
\* the filter { facultyId } and the $set document, after Mongoose's casting and
\* the update validators (runValidators: true).  ok = FALSE: the call rejects
\* with a CastError / ValidationError before anything is sent.
UpsertRequest(data, t) ==
    LET f  == CastString(data.facultyId)
        tg == CastString(data.tagId)
        sc == CastString(data.scannerId)
        r  == CastString(data.room)
        rs == CastNumber(data.rssi)
    IN  [ ok  |-> /\ f.ok /\ tg.ok /\ sc.ok /\ r.ok /\ rs.ok
                  /\ Required(sc.v) /\ Required(r.v) /\ Required(rs.v),
          key |-> f.v.s,
          set |-> [ tagId |-> tg.v, scannerId |-> sc.v.s, room |-> r.v.s,
                    rssi |-> rs.v.n, lastSeen |-> t ] ]

\* Faulty variant: the update keeps the stronger of the old and the new rssi.
SetFields_keepStrongest(doc, set) ==
    [ doc EXCEPT !.tagId = set.tagId, !.scannerId = set.scannerId, !.room = set.room,
                 !.rssi = IF set.rssi > doc.rssi THEN set.rssi ELSE doc.rssi,
                 !.lastSeen = set.lastSeen ]

\* Faulty variant: a detection without a tagId leaves the old tagId in place.
SetFields_keepTag(doc, set) ==
    [ doc EXCEPT !.tagId = IF set.tagId = Null THEN doc.tagId ELSE set.tagId,
                 !.scannerId = set.scannerId, !.room = set.room,
                 !.rssi = set.rssi, !.lastSeen = set.lastSeen ]

\* $set applied to a matched document
SetFields(doc, set) ==
    [ doc EXCEPT !.tagId = set.tagId, !.scannerId = set.scannerId,
                 !.room = set.room, !.rssi = set.rssi, !.lastSeen = set.lastSeen ]

\* The document an upsert inserts when the filter matches nothing.
NewDoc(id, key, set) ==
    [ id |-> id, facultyId |-> key, tagId |-> set.tagId, scannerId |-> set.scannerId,
      room |-> set.room, rssi |-> set.rssi, lastSeen |-> set.lastSeen ]

\* Faulty variant: the filter matches on the id's first four characters only.
Matching_prefix(key) ==
    { d \in store : StartsWith(d.facultyId, SubSeq(key, 1, 4)) }

\* FacultyLocation.findOne({ facultyId }) evaluated on the collection
Matching(key) == { d \in store : d.facultyId = key }

-----------------------------------------------------------------------------
(* Inputs *)

sFAC1  == <<"F", "A", "C", "_", "1">>
sFAC2  == <<"F", "A", "C", "_", "2">>
s101   == <<"1", "0", "1">>
sSCA   == <<"S", "C", "_", "A">>
sSCB   == <<"S", "C", "_", "B">>
sX     == <<"X">>
sR1    == <<"R", "1">>
sR2    == <<"R", "2">>
sT1    == <<"T", "1">>

DetA1 == Det(Str(sFAC1), Str(sT1), Str(sSCA), Str(sR1), Num(-50))
DetB1 == Det(Str(sFAC1), Undef,    Str(sSCB), Str(sR2), Num(-80))
DetA2 == Det(Str(sFAC2), Str(sT1), Str(sSCA), Str(sR1), Num(-50))
DetHot == Det(Str(sFAC1), Str(sT1), Str(sSCA), Str(sR1), Num(15))
DetBlankRoom == Det(Str(sFAC1), Str(sT1), Str(sSCA), Str(<<" ">>), Num(-50))

\* Payloads the broker delivers
Payloads ==
    { Payload("object", DetA1), Payload("object", DetB1), Payload("object", DetA2),
      Payload("object", DetHot), Payload("object", DetBlankRoom),
      Payload("null", NoDet), Payload("badjson", NoDet) }

\* Bodies POSTed to /api/scanner/update
RestBodies ==
    { Det(Str(sFAC1), Undef, Str(sX), Str(sR1), Num(15)),
      Det(Str(sFAC1), Undef, Str(sSCA), Undef, Num(-50)) }

\* Lines read from the serial port
SerialLines ==
    { Payload("object", Det(Str(sFAC2), Undef, Str(sX), Str(sR2), Num(-80))),
      Payload("text", NoDet) }

-----------------------------------------------------------------------------
(* State *)

\* The upsert calls in flight form a bag: two calls may carry the same data.
Calls == BagToSet(inflight)

\* The inputs taken so far: messages counted by handleMessage, plus requests served.
Taken == messageCount + errorCount + served

Start(h) == inflight' = inflight (+) SetToBag({h})

Move(h, g) == inflight' = (inflight (-) SetToBag({h})) (+) SetToBag({g})

End(h) == inflight' = inflight (-) SetToBag({h})

NoSet == [tagId |-> Null, scannerId |-> <<>>, room |-> <<>>, rssi |-> 0, lastSeen |-> 0]

\* The scanner before power-on: nothing buffered, credentials provisioned.
ScannerOff ==
    /\ phase = "boot"
    /\ detections = <<>>
    /\ wifiFailCount = 0
    /\ credentials = TRUE
    /\ attempts = 0
    /\ heard = <<>>
    /\ published = <<>>
    /\ cycle = 0
    /\ streak = 0

NoSubscription == [filter |-> <<>>, state |-> "none"]

\* The transports before the server starts them.
LinksOff ==
    /\ serialPort = 0
    /\ ports = <<>>
    /\ isConnected = FALSE
    /\ reconnectTimer = FALSE
    /\ timers = 0
    /\ reconnectAttempts = 0
    /\ stopped = FALSE
    /\ mqttStarted = FALSE
    /\ client = "null"
    /\ connected = FALSE
    /\ lastEvent = "none"
    /\ subscription = NoSubscription
    /\ online = {}
    /\ wire = {}
    /\ sent = {}
    /\ delivered = {}

Init ==
    /\ store = {}
    /\ inflight = EmptyBag
    /\ now = 0
    /\ inbox = None
    /\ messageCount = 0
    /\ errorCount = 0
    /\ proc = "up"
    /\ mqttLog = "none"
    /\ served = 0
    /\ ScannerOff
    /\ LinksOff

\* Date.now() advances.
Tick ==
    /\ now < MaxTime
    /\ now' = now + 1
    /\ UNCHANGED <<store, inflight, inbox, messageCount, errorCount, proc, mqttLog, served>>
    /\ UNCHANGED <<scannerVars, linkVars>>

-----------------------------------------------------------------------------
(* locationService.js upsertFacultyLocation *)

\* Faulty variant: the catch block rethrows.
UpsertCatch_rethrow == "threw"

\* catch (error) { return { success: false, error: error.message } }
UpsertCatch == "failed"

\* A caller awaits upsertFacultyLocation(data).  Up to the await, new Date()
\* is read and the request is issued; a call that fails in casting or
\* validation settles as caught without reaching the database.
Call(src, data) ==
    LET req == UpsertRequest(data, now) IN
    IF req.ok
    THEN Start([pc |-> "find", src |-> src, key |-> req.key, set |-> req.set,
                result |-> "none"])
    ELSE Start([pc |-> "settled", src |-> src, key |-> req.key, set |-> req.set,
                result |-> UpsertCatch])

\* The promise of upsertFacultyLocation settles; its caller resumes later.
Settle(h, result) == Move(h, [h EXCEPT !.pc = "settled", !.result = result])

\* The database evaluates the filter: a matching document is updated in place
\* (atomically); with no match the upsert goes on to insert.
DbFind(h) ==
    /\ proc # "down"
    /\ h.pc = "find"
    /\ LET m == Matching(h.key) IN
       IF m = {}
       THEN /\ Move(h, [h EXCEPT !.pc = "insert"])
            /\ UNCHANGED store
       ELSE /\ \E d \in m : store' = (store \ {d}) \cup {SetFields(d, h.set)}
            /\ Settle(h, "ok")
    /\ UNCHANGED <<now, inbox, messageCount, errorCount, proc, mqttLog, served>>
    /\ UNCHANGED <<scannerVars, linkVars>>

\* The insert half of the upsert.  With the unique index, a document inserted
\* meanwhile for the same key makes the server retry the upsert as an update.
DbInsert(h) ==
    /\ proc # "down"
    /\ h.pc = "insert"
    /\ LET m == Matching(h.key) IN
       IF m = {} \/ ~UniqueIndex
       THEN store' = store \cup {NewDoc(Cardinality(store) + 1, h.key, h.set)}
       ELSE \E d \in m : store' = (store \ {d}) \cup {SetFields(d, h.set)}
    /\ Settle(h, "ok")
    /\ UNCHANGED <<now, inbox, messageCount, errorCount, proc, mqttLog, served>>
    /\ UNCHANGED <<scannerVars, linkVars>>

\* ... or the server answers E11000 duplicate key to the losing insert.
DbDuplicateKey(h) ==
    /\ proc # "down"
    /\ h.pc = "insert"
    /\ UniqueIndex
    /\ Matching(h.key) # {}
    /\ Settle(h, UpsertCatch)
    /\ UNCHANGED <<store, now, inbox, messageCount, errorCount, proc, mqttLog, served>>
    /\ UNCHANGED <<scannerVars, linkVars>>

\* The storage write fails (connection lost, timeout): findOneAndUpdate rejects.
DbError(h) ==
    /\ proc # "down"
    /\ h.pc \in {"find", "insert"}
    /\ Settle(h, UpsertCatch)
    /\ UNCHANGED <<store, now, inbox, messageCount, errorCount, proc, mqttLog, served>>
    /\ UNCHANGED <<scannerVars, linkVars>>

\* The caller resumes after its await.  handleMessage counts a failed result
\* (or a throw, in its catch) in errorCount; the REST route answers 200 / 500
\* and the serial listener logs, both inside their own try/catch.
Resume(h) ==
    /\ proc # "down"
    /\ h.pc = "settled"
    /\ End(h)
    /\ errorCount' = IF h.src = "mqtt" /\ h.result # "ok"
                       THEN errorCount + 1 ELSE errorCount
    /\ mqttLog' = IF h.src # "mqtt" THEN mqttLog
                  ELSE IF h.result = "ok" THEN "db_updated" ELSE "db_failed"
    /\ UNCHANGED <<store, now, inbox, messageCount, proc, served>>
    /\ UNCHANGED <<scannerVars, linkVars>>

-----------------------------------------------------------------------------
(* mqttService.js: client.on("message") and handleMessage *)

\* async (topic, payload) => { await handleMessage(topic, payload); }
\* up to the await of the upsert.  A throw outside the try blocks rejects the
\* handler's promise, which nothing catches: Node logs a warning and goes on
\* or, with the default of current versions, terminates the process.
HandleMessage(p) ==
    /\ proc # "down"
    /\ Taken < MaxCount
    /\ LET v == Validate(p) IN
       /\ IF v = "accepted"
          THEN /\ messageCount' = messageCount + 1
               /\ mqttLog' = "received"
               /\ Call("mqtt", MqttUpsertArg(p))
               /\ UNCHANGED <<errorCount, proc>>
          ELSE IF v = "throws"
          THEN /\ proc' \in {proc, "down"}
               /\ UNCHANGED <<inflight, messageCount, errorCount, mqttLog>>
          ELSE /\ errorCount' = errorCount + 1
               /\ mqttLog' = v
               /\ UNCHANGED <<inflight, messageCount, proc>>
    /\ UNCHANGED <<store, now, served>>
    /\ UNCHANGED scannerVars

\* client.on("message", ...) for a payload the broker delivers
MqttMessage(p) == HandleMessage(p) /\ UNCHANGED <<inbox, linkVars>>

-----------------------------------------------------------------------------
(* routes/scannerRoutes.js: POST /api/scanner/update *)

\* errors.length > 0  ->  400
RestErrors(b) ==
    \/ ~Truthy(b.facultyId)
    \/ ~Truthy(b.scannerId)
    \/ ~Truthy(b.room)
    \/ b.rssi.t \in {"undefined", "null"}
    \/ b.rssi.t # "number"

RestUpsertArg(b) == Det(b.facultyId, OrNull(b.tagId), b.scannerId, b.room, b.rssi)

RestUpdate(b) ==
    /\ proc # "down"
    /\ Taken < MaxCount
    /\ served' = served + 1
    /\ IF RestErrors(b) THEN UNCHANGED inflight ELSE Call("rest", RestUpsertArg(b))
    /\ UNCHANGED <<store, now, inbox, messageCount, errorCount, proc, mqttLog>>
    /\ UNCHANGED <<scannerVars, linkVars>>

-----------------------------------------------------------------------------
(* services/serialScannerListener.js: processSerialData *)

\* if (!data.facultyId || !data.scannerId || !data.room || data.rssi === undefined)
SerialMissing(d) ==
    \/ ~Truthy(d.facultyId)
    \/ ~Truthy(d.scannerId)
    \/ ~Truthy(d.room)
    \/ d.rssi.t = "undefined"

SerialUpsertArg(d) == Det(d.facultyId, OrNull(d.tagId), d.scannerId, d.room, d.rssi)

\* Empty lines and lines not starting with "{" are skipped; a JSON.parse
\* failure is caught; a complete payload is forwarded as it is.
SerialData(l) ==
    /\ proc # "down"
    /\ Taken < MaxCount
    /\ served' = served + 1
    /\ IF l.kind # "object" \/ SerialMissing(l.det)
       THEN UNCHANGED inflight
       ELSE Call("serial", SerialUpsertArg(l.det))
    /\ UNCHANGED <<store, now, inbox, messageCount, errorCount, proc, mqttLog>>
    /\ UNCHANGED <<scannerVars, linkVars>>

-----------------------------------------------------------------------------

Next ==
    \/ Tick
    \/ \E p \in Payloads : MqttMessage(p)
    \/ \E b \in RestBodies : RestUpdate(b)
    \/ \E l \in SerialLines : SerialData(l)
    \/ \E h \in Calls : DbFind(h)
    \/ \E h \in Calls : DbInsert(h)
    \/ \E h \in Calls : DbDuplicateKey(h)
    \/ \E h \in Calls : DbError(h)
    \/ \E h \in Calls : Resume(h)

Spec == Init /\ [][Next]_vars

-----------------------------------------------------------------------------
(* The validator on one message: SpecV handles a single payload, drawn from  *)
(* every combination of the field values below, against a store that is      *)
(* empty or already holds a record.                                          *)

sSpFAC1 == <<" ", "F", "A", "C", "_", "1">>
sSpSCA  == <<" ", "S", "C", "_", "A", " ">>
sSpT1   == <<" ", "T", "1", " ">>
sBlank  == <<" ">>
sm50    == <<"-", "5", "0">>
sabc    == <<"a", "b", "c">>

FacultyIdValues ==
    { Undef, Null, Str(<<>>), Num(101), Arr1(1), Str(s101), Str(sFAC1), Str(sSpFAC1) }

RoomValues == { Undef, Num(5), Str(<<>>), Str(sBlank), Str(sR1) }

RssiValues ==
    { Undef, Null, Bool(TRUE), Bool(FALSE), Str(<<>>), Str(sm50), Str(sabc),
      Arr0, Arr1(-50), Obj,
      Num(-121), Num(-120), Num(-50), Num(0), Num(1), Num(15) }

ScannerIdValues == { Undef, Num(7), Obj, Str(sX), Str(sSCA), Str(sSpSCA) }

TagIdValues == { Undef, Null, Str(sT1), Str(sSpT1), Num(7) }

ValidatorPayloads ==
    { Payload("object", Det(f, tg, sc, r, rs)) :
        f \in FacultyIdValues, tg \in TagIdValues, sc \in ScannerIdValues,
        r \in RoomValues, rs \in RssiValues }
    \cup { Payload(k, NoDet) : k \in {"badjson", "null", "number", "string", "array"} }

\* A record an earlier accepted detection left for FAC_1.
OldDoc ==
    NewDoc(1, sFAC1, [tagId |-> Str(sT1), scannerId |-> sSCB, room |-> sR2,
                      rssi |-> -80, lastSeen |-> 0])

InitV ==
    /\ store \in { {}, {OldDoc} }
    /\ inflight = EmptyBag
    /\ now = 0
    /\ inbox \in ValidatorPayloads
    /\ messageCount = 0
    /\ errorCount = 0
    /\ proc = "up"
    /\ mqttLog = "none"
    /\ served = 0
    /\ ScannerOff
    /\ LinksOff

\* client.on("message", ...) for the payload under test
MqttInbox ==
    /\ inbox # None
    /\ HandleMessage(inbox)
    /\ inbox' = None
    /\ UNCHANGED linkVars

NextV ==
    \/ MqttInbox
    \/ Tick
    \/ \E h \in Calls : DbFind(h)
    \/ \E h \in Calls : DbInsert(h)
    \/ \E h \in Calls : DbError(h)
    \/ \E h \in Calls : Resume(h)

SpecV == InitV /\ [][NextV]_vars

-----------------------------------------------------------------------------
(* Queries: the lookups offered to the chat and UI collaborators.            *)
(*   services/locationService.js  getFacultyLocation, getFacultyLocationByName *)
(*   routes/facultyRoutes.js      GET /api/faculty/location/:id              *)
(*   services/toolExecutor.js     TOOLS.get_faculty_location                 *)
(*   services/databaseService.js  executeQueryPlan                           *)

UpperCase == <<"A", "B", "C", "D", "E", "F", "G", "H", "I", "J", "K", "L", "M",
               "N", "O", "P", "Q", "R", "S", "T", "U", "V", "W", "X", "Y", "Z">>
LowerCase == <<"a", "b", "c", "d", "e", "f", "g", "h", "i", "j", "k", "l", "m",
               "n", "o", "p", "q", "r", "s", "t", "u", "v", "w", "x", "y", "z">>

ToLower(c) ==
    IF \E i \in 1..26 : UpperCase[i] = c
    THEN LowerCase[CHOOSE i \in 1..26 : UpperCase[i] = c]
    ELSE c

LowerOf(x) == [i \in 1..Len(x) |-> ToLower(x[i])]

\* { $regex: pat, $options: "i" } for a pattern of plain characters
RegexI(x, pat) ==
    \E i \in 0..(Len(x) - Len(pat)) :
        SubSeq(LowerOf(x), i + 1, i + Len(pat)) = LowerOf(pat)

\* name.split(' ')[0]
FirstWord(x) ==
    IF \E i \in 1..Len(x) : x[i] = " "
    THEN SubSeq(x, 1, (CHOOSE i \in 1..Len(x) :
                          x[i] = " " /\ \A j \in 1..(i - 1) : x[j] # " ") - 1)
    ELSE x

HexDigits == {"0", "1", "2", "3", "4", "5", "6", "7", "8", "9",
              "a", "b", "c", "d", "e", "f", "A", "B", "C", "D", "E", "F"}

\* mongoose.Types.ObjectId.isValid(id) for a string: 24 hex digits, or 12 bytes
ObjectIdIsValid(x) ==
    \/ Len(x) = 24 /\ \A i \in 1..24 : x[i] \in HexDigits
    \/ Len(x) = 12

\* An ObjectId printed by toString(): 24 hex digits
Hex24(c) == [i \in 1..24 |-> c]

sAshaN == <<"A", "s", "h", "a", " ", "N">>
sFacB  == <<"F", "a", "c", " ", "B">>
sasha  == <<"a", "s", "h", "a">>
sfac   == <<"f", "a", "c">>
szed   == <<"z", "e", "d">>

\* The faculties collection (models/faculty.js): one member wearing tag
\* FAC_1, one with no facultyId.  The lookups only read it.
Faculties ==
    { [_id |-> Hex24("a"), name |-> sAshaN, facultyId |-> Str(sFAC1)],
      [_id |-> Hex24("b"), name |-> sFacB,  facultyId |-> Undef] }

NoFaculty == [_id |-> <<>>, name |-> <<>>, facultyId |-> Undef]

\* What the callers pass
GetIds     == { sFAC1, sFAC2 }
QueryNames == { sasha, sfac, szed }
RouteIds   == { sFAC1, Hex24("a"), Hex24("f") }

\* No document
Nothing == [none |-> TRUE]

\* A lookup awaiting the database: where it stands (pc), what it was asked
\* (key), the faculty document it holds (who), what it answers (result, doc)
\* and the collection as its last read saw it (at).
Query(src, key, pc) ==
    [pc |-> pc, src |-> src, key |-> key, who |-> NoFaculty,
     result |-> "none", doc |-> Nothing, at |-> {}]

Answer(h, pc, result, doc) ==
    [h EXCEPT !.pc = pc, !.result = result, !.doc = doc, !.at = store]

QuerySources == {"get", "byName", "route", "tool"}

Answered(h) == h.src \in QuerySources /\ h.pc \in {"done", "caught"}

\* Faulty variant: the read may miss the document it looks for.
GetAfterRead_miss(h) ==
    { Answer(h, "done", "null", Nothing) }
        \cup { Answer(h, "done", "found", d) : d \in Matching(h.key) }

\* getFacultyLocation: return await FacultyLocation.findOne({ facultyId })
GetAfterRead(h) ==
    IF Matching(h.key) = {}
    THEN { Answer(h, "done", "null", Nothing) }
    ELSE { Answer(h, "done", "found", d) : d \in Matching(h.key) }

\* catch (error) { return null }
GetCatch(h) == Answer(h, "caught", "null", Nothing)

ByNameReply(f, d) ==
    [facultyName |-> f.name, room |-> d.room, scannerId |-> d.scannerId,
     lastSeen |-> d.lastSeen]

\* getFacultyLocationByName, one await at a time: the faculty by name, the
\* location by the faculty's _id, then by the first word of the name.
ByNameAfterRead(h) ==
    CASE h.pc = "faculty" ->
           LET F == { f \in Faculties : RegexI(f.name, h.key) } IN
           IF F = {} THEN { Answer(h, "done", "null", Nothing) }
           ELSE { [h EXCEPT !.pc = "byId", !.who = f, !.at = store] : f \in F }
      [] h.pc = "byId" ->
           IF Matching(h.who._id) = {}
           THEN { [h EXCEPT !.pc = "byFirstName", !.at = store] }
           ELSE { Answer(h, "done", "found", ByNameReply(h.who, d)) :
                    d \in Matching(h.who._id) }
      [] h.pc = "byFirstName" ->
           LET m == { d \in store : RegexI(d.facultyId, FirstWord(h.who.name)) } IN
           IF m = {} THEN { Answer(h, "done", "null", Nothing) }
           ELSE { Answer(h, "done", "found", ByNameReply(h.who, d)) : d \in m }

\* catch (error) { return null }
ByNameCatch(h) == Answer(h, "caught", "null", Nothing)

RouteReply(d) ==
    [facultyId |-> d.facultyId, room |-> d.room, scannerId |-> d.scannerId,
     lastSeen |-> d.lastSeen]

\* router.get("/location/:id"): the direct lookup, then the faculty document
\* when the id looks like an ObjectId, then the lookup by its facultyId.
RouteAfterRead(h) ==
    CASE h.pc = "direct" ->
           IF Matching(h.key) # {}
           THEN { Answer(h, "done", "200", RouteReply(d)) : d \in Matching(h.key) }
           ELSE IF ObjectIdIsValid(h.key)
           THEN { [h EXCEPT !.pc = "findById", !.at = store] }
           ELSE { Answer(h, "done", "404", Nothing) }
      [] h.pc = "findById" ->
           LET F == { f \in Faculties : f._id = h.key /\ Truthy(f.facultyId) } IN
           IF F = {} THEN { Answer(h, "done", "404", Nothing) }
           ELSE { [h EXCEPT !.pc = "resolved", !.who = f, !.at = store] : f \in F }
      [] h.pc = "resolved" ->
           LET m == Matching(h.who.facultyId.s) IN
           IF m = {} THEN { Answer(h, "done", "404", Nothing) }
           ELSE { Answer(h, "done", "200", RouteReply(d)) : d \in m }

\* catch (err) { res.status(500).json({ error: err.message }) }
RouteCatch(h) == Answer(h, "caught", "500", Nothing)

ToolReply(d) == [room |-> d.room, lastSeen |-> d.lastSeen]

\* TOOLS.get_faculty_location: executeQueryPlan on faculties, then on
\* facultyLocations; _meta.type tells the three outcomes apart.
ToolAfterRead(h) ==
    CASE h.pc = "faculty" ->
           LET F == { f \in Faculties : RegexI(f.name, h.key) } IN
           IF F = {} THEN { Answer(h, "done", "location_not_found", Nothing) }
           ELSE { IF Truthy(f.facultyId)
                  THEN [h EXCEPT !.pc = "location", !.who = f, !.at = store]
                  ELSE [Answer(h, "done", "location_no_tracking", Nothing)
                          EXCEPT !.who = f] : f \in F }
      [] h.pc = "location" ->
           LET m == Matching(h.who.facultyId.s) IN
           IF m = {} THEN { Answer(h, "done", "location", Nothing) }
           ELSE { Answer(h, "done", "location", ToolReply(d)) : d \in m }

\* executeQueryPlan catches the failure and returns no results; the tool
\* reads results and count only.
ToolCatch(h) ==
    IF h.pc = "faculty"
    THEN Answer(h, "caught", "location_not_found", Nothing)
    ELSE Answer(h, "caught", "location", Nothing)

AfterRead(h) ==
    CASE h.src = "get"    -> GetAfterRead(h)
      [] h.src = "byName" -> ByNameAfterRead(h)
      [] h.src = "route"  -> RouteAfterRead(h)
      [] h.src = "tool"   -> ToolAfterRead(h)

AfterReadError(h) ==
    CASE h.src = "get"    -> GetCatch(h)
      [] h.src = "byName" -> ByNameCatch(h)
      [] h.src = "route"  -> RouteCatch(h)
      [] h.src = "tool"   -> ToolCatch(h)

Reading(h) == h.src \in QuerySources /\ ~Answered(h)

\* A caller starts a lookup: everything up to its first await.
StartQuery(src, key, pc) ==
    /\ proc # "down"
    /\ Taken < MaxCount
    /\ served' = served + 1
    /\ Start(Query(src, key, pc))
    /\ UNCHANGED <<store, now, inbox, messageCount, errorCount, proc, mqttLog>>
    /\ UNCHANGED <<scannerVars, linkVars>>

GetFacultyLocation(id) == StartQuery("get", id, "read")

GetFacultyLocationByName(name) == StartQuery("byName", name, "faculty")

RouteLocation(id) == StartQuery("route", id, "direct")

ToolGetFacultyLocation(name) == StartQuery("tool", name, "faculty")

\* The database answers the read a lookup awaits.
DbRead(h) ==
    /\ proc # "down"
    /\ Reading(h)
    /\ \E g \in AfterRead(h) : Move(h, g)
    /\ UNCHANGED <<store, now, inbox, messageCount, errorCount, proc, mqttLog, served>>
    /\ UNCHANGED <<scannerVars, linkVars>>

\* The read fails (connection lost, timeout): the awaited promise rejects.
DbReadError(h) ==
    /\ proc # "down"
    /\ Reading(h)
    /\ Move(h, AfterReadError(h))
    /\ UNCHANGED <<store, now, inbox, messageCount, errorCount, proc, mqttLog, served>>
    /\ UNCHANGED <<scannerVars, linkVars>>

\* The answer reaches the caller.
Return(h) ==
    /\ proc # "down"
    /\ Answered(h)
    /\ End(h)
    /\ UNCHANGED <<store, now, inbox, messageCount, errorCount, proc, mqttLog, served>>
    /\ UNCHANGED <<scannerVars, linkVars>>

-----------------------------------------------------------------------------
(* services/databaseService.js: executeQueryPlan, given the plan that        *)
(* generateQueryPlan parsed from the language model's answer                 *)

ALLOWED_OPERATIONS == {"findOne", "findMany", "count", "exists", "aggregate"}

DANGEROUS_KEYS == {"$where", "$expr", "$function", "$accumulator", "$eval", "$jsonSchema"}

MAX_LIMIT == 20

sFaculties        == <<"f", "a", "c", "u", "l", "t", "i", "e", "s">>
sFacultyLocations == <<"f", "a", "c", "u", "l", "t", "y",
                       "L", "o", "c", "a", "t", "i", "o", "n", "s">>
sNone             == <<"n", "o", "n", "e">>

\* listCollections(): the names of the collections of the database
CollectionNames == { sFaculties, sFacultyLocations }

\* names.includes(collectionName.toLowerCase()), names lower-cased
CollectionExists(name) == \E c \in CollectionNames : LowerOf(c) = LowerOf(name)

\* A pipeline stage is an object with one key.
Stage(op, arg, n) == [op |-> op, arg |-> arg, n |-> n]

\* sanitizeFilter(stage), then .filter(stage => Object.keys(stage).length > 0):
\* a stage whose key is dangerous comes back empty and is dropped.
SafePipeline(stages) == SelectSeq(stages, LAMBDA st : st.op \notin DANGEROUS_KEYS)

\* Math.min(Math.max(limit || 10, 1), MAX_LIMIT)
ResultLimit(limit) ==
    LET l == IF limit = 0 THEN 10 ELSE limit
        m == IF l < 1 THEN 1 ELSE l
    IN IF m > MAX_LIMIT THEN MAX_LIMIT ELSE m

\* if (!hasLimit) safePipeline.push({ $limit: resultLimit })
WithLimit(stages, limit) ==
    IF \E i \in 1..Len(stages) : stages[i].op = "$limit"
    THEN stages
    ELSE Append(stages, Stage("$limit", <<>>, ResultLimit(limit)))

\* The documents of a collection, and those with a given facultyId
DocsIn(coll) == IF coll = sFacultyLocations THEN store ELSE Faculties

HasFacultyId(d, key) ==
    IF "name" \in DOMAIN d
    THEN d.facultyId.t = "string" /\ d.facultyId.s = key
    ELSE d.facultyId = key

\* The server runs the pipeline: $match and $limit narrow the documents (any
\* n of them, the order being the server's); $out is accepted as the last
\* stage only and replaces the named collection with the documents it is
\* given.  The result is the set of possible outcomes.
RECURSIVE RunPipeline(_, _)
RunPipeline(docs, stages) ==
    IF stages = <<>> THEN { [ok |-> TRUE, out |-> <<>>, docs |-> docs] }
    ELSE LET st == Head(stages) IN
         CASE st.op = "$match" ->
                RunPipeline({ d \in docs : HasFacultyId(d, st.arg) }, Tail(stages))
           [] st.op = "$limit" ->
                UNION { RunPipeline(D, Tail(stages)) :
                          D \in { E \in SUBSET docs :
                                    Cardinality(E) = IF Cardinality(docs) < st.n
                                                     THEN Cardinality(docs) ELSE st.n } }
           [] st.op = "$out" ->
                IF Tail(stages) = <<>>
                THEN { [ok |-> TRUE, out |-> st.arg, docs |-> docs] }
                ELSE { [ok |-> FALSE, out |-> <<>>, docs |-> {}] }
           [] OTHER -> RunPipeline(docs, Tail(stages))

Plan(coll, operation, key, aggregation) ==
    [collection |-> coll, operation |-> operation, filter |-> key,
     aggregation |-> aggregation, limit |-> 0]

\* The collection after executeQueryPlan(plan): the read operations leave it
\* as it is; aggregate leaves what the pipeline leaves.
AfterQueryPlan(plan) ==
    IF plan.operation \notin ALLOWED_OPERATIONS \/ ~CollectionExists(plan.collection)
    THEN { store }
    ELSE IF plan.operation # "aggregate" \/ plan.aggregation = <<>>
    THEN { store }
    ELSE { IF r.ok /\ r.out = sFacultyLocations THEN r.docs ELSE store :
             r \in RunPipeline(DocsIn(plan.collection),
                               WithLimit(SafePipeline(plan.aggregation), plan.limit)) }

\* Plans the planner may hand over
QueryPlans ==
    { Plan(sFacultyLocations, "findOne", sFAC1, <<>>),
      Plan(sFacultyLocations, "deleteMany", sFAC1, <<>>),
      Plan(sFacultyLocations, "aggregate", <<>>, <<Stage("$match", sFAC1, 0)>>),
      Plan(sFacultyLocations, "aggregate", <<>>,
           <<Stage("$where", <<>>, 0), Stage("$out", sFacultyLocations, 0)>>),
      Plan(sFaculties, "aggregate", <<>>,
           <<Stage("$match", sNone, 0), Stage("$limit", <<>>, 1),
             Stage("$out", sFacultyLocations, 0)>>) }

\* handleChat: queryPlan = await generateQueryPlan(message);
\*             dbResult  = await executeQueryPlan(queryPlan)
ExecuteQueryPlan(plan) ==
    /\ proc # "down"
    /\ Taken < MaxCount
    /\ served' = served + 1
    /\ store' \in AfterQueryPlan(plan)
    /\ UNCHANGED <<inflight, now, inbox, messageCount, errorCount, proc, mqttLog>>
    /\ UNCHANGED <<scannerVars, linkVars>>

\* Detections arriving while the lookups run
QueryPayloads == { Payload("object", DetA1), Payload("object", DetA2) }

NextQ ==
    \/ \E p \in QueryPayloads : MqttMessage(p)
    \/ \E h \in Calls : DbFind(h)
    \/ \E h \in Calls : DbInsert(h)
    \/ \E h \in Calls : DbDuplicateKey(h)
    \/ \E h \in Calls : DbError(h)
    \/ \E h \in Calls : Resume(h)
    \/ \E id \in GetIds : GetFacultyLocation(id)
    \/ \E name \in QueryNames : GetFacultyLocationByName(name)
    \/ \E id \in RouteIds : RouteLocation(id)
    \/ \E name \in QueryNames : ToolGetFacultyLocation(name)
    \/ \E plan \in QueryPlans : ExecuteQueryPlan(plan)
    \/ \E h \in Calls : DbRead(h)
    \/ \E h \in Calls : DbReadError(h)
    \/ \E h \in Calls : Return(h)

SpecQ == Init /\ [][NextQ]_vars

-----------------------------------------------------------------------------
(* Properties *)

DocsOf(S, key) == { d \in S : d.facultyId = key }

Fields(d) ==
    [tagId |-> d.tagId, scannerId |-> d.scannerId, room |-> d.room,
     rssi |-> d.rssi, lastSeen |-> d.lastSeen]

Pending(h) == h.pc \in {"find", "insert"}

SettledOk(h) == h.pc = "settled" /\ h.result = "ok"

\* This step settles the pending call h with result r.
Settles(h, r) ==
    /\ Pending(h)
    /\ inflight' = (inflight (-) SetToBag({h}))
                      (+) SetToBag({[h EXCEPT !.pc = "settled", !.result = r]})

\* C1: at most one LocationRecord per facultyId, in every reachable state and
\* under every interleaving of upserts.
C1_OneRecordPerPerson ==
    \A d \in store : \A e \in store : d.facultyId = e.facultyId => d = e

\* Two different upserts for one facultyId have both been applied and a single
\* record is there.
C1_Witness ==
    \E h \in Calls : \E g \in Calls :
        /\ h.key = g.key /\ h.set # g.set
        /\ SettledOk(h) /\ SettledOk(g)
        /\ Cardinality(DocsOf(store, h.key)) = 1

\* C2: last write wins.  The step in which an upsert succeeds leaves the record
\* of its facultyId with tagId, scannerId, room and rssi (and lastSeen) exactly
\* those of its detection, whatever the record held before.
C2_LastWriteWins ==
    [][ \A h \in Calls :
          Settles(h, "ok") =>
             /\ DocsOf(store', h.key) # {}
             /\ \A d \in DocsOf(store', h.key) : Fields(d) = h.set ]_vars

\* A weaker, tag-less detection was applied after a stronger one and is the record.
C2_Witness ==
    \E h \in Calls : \E g \in Calls :
        /\ h.key = g.key
        /\ SettledOk(h) /\ SettledOk(g)
        /\ h.set.rssi > g.set.rssi
        /\ h.set.tagId # Null /\ g.set.tagId = Null
        /\ h.set.lastSeen < g.set.lastSeen
        /\ \E d \in store : d.facultyId = g.key /\ Fields(d) = g.set

\* C3: lastSeen of a record never decreases in any step.
C3_LastSeenMonotonic ==
    [][ \A d \in store : \A e \in store' :
          e.facultyId = d.facultyId => e.lastSeen >= d.lastSeen ]_vars

\* The handler takes this payload in this step.
Handled == inbox # None /\ inbox' = None

\* The handler did not go on to the upsert: nothing issued, nothing stored.
NotUpserted ==
    /\ inflight' = inflight
    /\ store' = store
    /\ messageCount' = messageCount

IsString(v) == v.t = "string"

\* The cases of C4 that hold of the code whatever the whitespace around the ids.
C4_Structural(d) ==
    \/ d.facultyId.t = "undefined" \/ d.room.t = "undefined"
    \/ d.rssi.t = "undefined" \/ d.scannerId.t = "undefined"
    \/ ~IsString(d.facultyId) \/ ~IsString(d.room) \/ ~IsString(d.scannerId)
    \/ (d.rssi.t = "number" /\ (d.rssi.n < -120 \/ d.rssi.n > 0))

\* C4 as stated: the prefix is tested on the id as received.
C4_Invalid(d) ==
    \/ C4_Structural(d)
    \/ ~StartsWith(d.facultyId.s, FAC_PREFIX)
    \/ ~StartsWith(d.scannerId.s, SC_PREFIX)

\* C4 amended: the prefix is tested on the id with surrounding whitespace trimmed.
C4_InvalidTrimmed(d) ==
    \/ C4_Structural(d)
    \/ ~StartsWith(Trim(d.facultyId.s), FAC_PREFIX)
    \/ ~StartsWith(Trim(d.scannerId.s), SC_PREFIX)

C5_RejectsNonNumericRssi ==
    [][ (Handled /\ inbox.kind = "object"
           /\ inbox.det.rssi.t \notin {"number", "undefined"}) => NotUpserted ]_vars

\* C6: no payload makes the message handler throw, so the process stays up.
C6_HandlerNeverThrows == proc = "up"

\* C7: a failing storage write settles the upsert as a failed result, never a
\* throw; the step leaves the store as it was, and the caller that resumes on
\* a failed result keeps the process running.
C7_FailedWriteIsCaught ==
    [][ /\ \A h \in BagToSet(inflight') : h.result \in {"none", "ok", "failed"}
        /\ \A h \in Calls : \A r \in {"failed", "threw"} :
              Settles(h, r) => store' = store
        /\ \A h \in Calls :
              (h.pc = "settled" /\ h.result # "ok"
                 /\ inflight' = inflight (-) SetToBag({h}))
              => (proc' = "up" /\ store' = store) ]_vars

\* An upsert failed while its facultyId keeps the record of an earlier detection.
C7_Witness ==
    \E h \in Calls :
        /\ h.pc = "settled" /\ h.result = "failed"
        /\ DocsOf(store, h.key) # {}
        /\ \A d \in DocsOf(store, h.key) : Fields(d) # h.set

\* C8: every record has a facultyId starting with FAC_, a scannerId starting
\* with SC_ and an rssi in [-120, 0], whichever entry point wrote it.
C8_SoleGate ==
    \A d \in store :
        /\ StartsWith(d.facultyId, FAC_PREFIX)
        /\ StartsWith(d.scannerId, SC_PREFIX)
        /\ d.rssi >= RSSI_MIN /\ d.rssi <= RSSI_MAX

\* C9: concurrent upserts never mix fields.  Every record that a step creates
\* or changes is, as a whole tuple, the $set of one upsert pending for that
\* facultyId, and it is the only record of that facultyId.
C9_NoFieldMixing ==
    [][ \A d \in store' \ store :
          /\ DocsOf(store', d.facultyId) = {d}
          /\ \E h \in Calls :
                Pending(h) /\ h.key = d.facultyId /\ Fields(d) = h.set ]_vars

\* Two upserts for one facultyId, different in room and rssi, have both
\* completed; the record is the tuple of the one stamped first.
C9_Witness ==
    \E h \in Calls : \E g \in Calls :
        /\ h.key = g.key
        /\ SettledOk(h) /\ SettledOk(g)
        /\ h.set.room # g.set.room /\ h.set.rssi # g.set.rssi
        /\ h.set.lastSeen < g.set.lastSeen
        /\ DocsOf(store, h.key) # {}
        /\ \A d \in DocsOf(store, h.key) : Fields(d) = h.set

\* C10: a step of an upsert for facultyId p leaves the record of every other
\* facultyId (or its absence) as it was, whether the upsert succeeds or fails.
C10_Frame ==
    [][ \A h \in Calls : \A r \in {"ok", "failed"} :
          Settles(h, r) =>
             \A d \in store \cup store' :
                d.facultyId # h.key => (d \in store /\ d \in store') ]_vars

\* An upsert has been applied to one person while another person's older
\* record is there.
C10_Witness ==
    \E h \in Calls : \E d \in store : \E e \in store :
        /\ SettledOk(h)
        /\ d.facultyId = h.key /\ Fields(d) = h.set
        /\ e.facultyId # h.key /\ e.lastSeen < d.lastSeen

-----------------------------------------------------------------------------
(* Properties of the store under queries *)

\* C11: records are never deleted and the upsert is the only writer: in every
\* step each facultyId that has a record keeps one, and the collection changes
\* only in a step in which a pending upsert is applied.
C11_NeverDeleted ==
    [][ /\ \A d \in store : DocsOf(store', d.facultyId) # {}
        /\ store' # store => \E h \in Calls : Settles(h, "ok") ]_vars

\* What the caller of a lookup gets
Outcome(h) == <<h.result, h.doc>>

\* This step starts, advances or ends a getFacultyLocation call.
IsGetStep ==
    \E h \in Calls \cup BagToSet(inflight') :
        h.src = "get" /\ CopiesIn(h, inflight) # CopiesIn(h, inflight')

\* Two answers of getFacultyLocation for one facultyId, read from the same
\* collection contents, are the same.
SameAnswers(pcs) ==
    \A h \in Calls : \A g \in Calls :
        (/\ h.src = "get" /\ g.src = "get"
         /\ h.pc \in pcs /\ g.pc \in pcs
         /\ h.key = g.key /\ h.at = g.at) => Outcome(h) = Outcome(g)

Known(h) ==
    IF h.src = "route"
    THEN \E f \in Faculties :
            f._id = h.key \/ (f.facultyId.t = "string" /\ f.facultyId.s = h.key)
    ELSE \E f \in Faculties : RegexI(f.name, h.key)

\* The collection the lookup read held no record at all.
NeverDetected(h) == h.at = {}

\* C13: on every lookup by human-facing identity, the answer for a person of
\* the directory who was never detected differs from the answer for a person
\* who is not in the directory.
C13_Distinguishable ==
    \A h \in Calls : \A g \in Calls :
        (/\ h.src \in {"byName", "route", "tool"} /\ g.src = h.src
         /\ h.pc = "done" /\ g.pc = "done"
         /\ Known(h) /\ NeverDetected(h)
         /\ ~Known(g)) => Outcome(h) # Outcome(g)

\* C14: a read that failed is never answered as not found.
C14_FailureIsNotNotFound ==
    \A h \in Calls :
        (h.src \in {"get", "byName"} /\ h.pc = "caught") => h.result # "null"

-----------------------------------------------------------------------------
(* esp32_firmware/CampusNavScanner/CampusNavScanner.ino, with config.h        *)

MAX_DETECTIONS  == 10
MQTT_RETRY_MAX  == 5
WIFI_FAIL_LIMIT == 5

\* Tag wearers in range of the scanner, advertisements of one wearer heard
\* again in a cycle, and the tags that tell cycles apart
MaxPersons == 11
MaxRepeat  == 2
CycleTags  == 2

\* payload.indexOf(c): the position from 0, or -1
IndexOf(x, c) ==
    IF \E i \in 1..Len(x) : x[i] = c
    THEN (CHOOSE i \in 1..Len(x) : x[i] = c /\ \A j \in 1..(i - 1) : x[j] # c) - 1
    ELSE -1

\* payload.substring(from, to) and payload.substring(from)
Substring(x, from, to) == SubSeq(x, from + 1, to)

SubstringFrom(x, from) == SubSeq(x, from + 1, Len(x))

\* The zero byte, and std::string::c_str() read as a C string: the bytes
\* before the first zero byte
NUL == "NUL"

CStr(x) == IF IndexOf(x, NUL) = -1 THEN x ELSE Substring(x, 0, IndexOf(x, NUL))

\* What a tag broadcasts: manufacturer data "FAC_xxx|TAG_xxx" at some RSSI
Advert(hasData, data, rssi) == [hasData |-> hasData, data |-> data, rssi |-> rssi]

TAG_PREFIX == <<"T", "A", "G", "_">>

TagData(k, t) == FAC_PREFIX \o NatToString(k) \o <<"|">> \o TAG_PREFIX \o t

\* The first advertisement heard of wearer k
FreshAdvert(k) == Advert(TRUE, TagData(k, NatToString(k)), -70)

\* Wearer 1 heard again: twice at the same stronger RSSI from different
\* tags, once weaker
Repeats ==
    { Advert(TRUE, TagData(1, <<"b">>), -50),
      Advert(TRUE, TagData(1, <<"c">>), -50),
      Advert(TRUE, TagData(1, <<"d">>), -90) }

\* Devices that are not CampusNav tags: no manufacturer data, another
\* vendor's data, the prefix without a separator, a separator without the
\* prefix, and binary data whose separator lies behind a zero byte
Strangers ==
    { Advert(FALSE, <<>>, -40),
      Advert(TRUE, <<"X", "Y", "Z">>, -40),
      Advert(TRUE, FAC_PREFIX \o <<"9">>, -40),
      Advert(TRUE, <<"X", "|", "Y">>, -40),
      Advert(TRUE, FAC_PREFIX \o <<"7", NUL, "|", "T">>, -40) }

Adverts == { FreshAdvert(k) : k \in 1..MaxPersons } \cup Repeats \cup Strangers

\* String payload = String(device.getManufacturerData().c_str())
PayloadText(a) == CStr(a.data)

\* Faulty variant: the separator is not required.
Accepts_noSeparator(a) ==
    /\ a.hasData
    /\ StartsWith(PayloadText(a), FAC_PREFIX)

\* onResult goes on to the buffer: manufacturer data, the prefix, a separator
Accepts(a) ==
    /\ a.hasData
    /\ StartsWith(PayloadText(a), FAC_PREFIX)
    /\ IndexOf(PayloadText(a), "|") # -1

FacIdOf(a) == Substring(PayloadText(a), 0, IndexOf(PayloadText(a), "|"))

TagIdOf(a) == SubstringFrom(PayloadText(a), IndexOf(PayloadText(a), "|") + 1)

\* for (i < detectionCount) if (detections[i].facultyId == facId): the first such i, or 0
SlotOf(dets, id) ==
    IF \E i \in 1..Len(dets) : dets[i].facultyId = id
    THEN CHOOSE i \in 1..Len(dets) :
            dets[i].facultyId = id /\ \A j \in 1..(i - 1) : dets[j].facultyId # id
    ELSE 0

\* Faulty variant: an equal reading replaces the entry too.
Stronger_orEqual(rssi, old) == rssi >= old

\* Faulty variant: the comparison is turned round.
Stronger_weaker(rssi, old) == rssi < old

\* if (rssi > detections[i].rssi)
Stronger(rssi, old) == rssi > old

\* Faulty variant: the bound is tested off by one.
BufferHasSpace_offByOne(n) == n <= MAX_DETECTIONS

\* if (detectionCount < MAX_DETECTIONS)
BufferHasSpace(n) == n < MAX_DETECTIONS

\* The buffer after onResult for an accepted advertisement.  Each entry also
\* remembers the cycle that created it.
Buffer(dets, id, tag, rssi, c) ==
    LET i == SlotOf(dets, id) IN
    IF i # 0
    THEN IF Stronger(rssi, dets[i].rssi)
         THEN [dets EXCEPT ![i].rssi = rssi, ![i].tagId = tag]
         ELSE dets
    ELSE IF BufferHasSpace(Len(dets))
    THEN Append(dets, [facultyId |-> id, tagId |-> tag, rssi |-> rssi, cyc |-> c])
    ELSE dets

\* The accepted advertisements of the cycle, per facultyId in the order the
\* ids were first heard.
Hear(h, id, tag, rssi) ==
    LET i == SlotOf(h, id)
        ad == [tagId |-> tag, rssi |-> rssi]
    IN IF i # 0
       THEN [h EXCEPT ![i].ads = Append(@, ad)]
       ELSE Append(h, [facultyId |-> id, ads |-> <<ad>>])

\* What can be heard next: a stranger, the next wearer not heard yet, or
\* wearer 1 again.
Audible(a) ==
    \/ a \in Strangers
    \/ Len(heard) < MaxPersons /\ a = FreshAdvert(Len(heard) + 1)
    \/ a \in Repeats /\ heard # <<>> /\ Len(heard[1].ads) <= MaxRepeat

\* Faulty variant: loop() leaves detectionCount as it was.
ResetBuffer_keep(dets) == dets

\* detectionCount = 0, the first statement of loop()
ResetBuffer(dets) == <<>>

\* loop() is entered: the buffer is reset and the scan starts.
EnterScan ==
    /\ phase' = "scan"
    /\ detections' = ResetBuffer(detections)
    /\ heard' = <<>>
    /\ published' = <<>>
    /\ attempts' = 0
    /\ cycle' = (cycle + 1) % CycleTags

\* resetWiFiCredentials(): wifiManager.resetSettings(), saveFailCount(0),
\* ESP.restart().  The device boots again with its memory cleared.
ResetWiFiCredentials ==
    /\ credentials' = FALSE
    /\ wifiFailCount' = 0
    /\ streak' = 0
    /\ phase' = "boot"
    /\ detections' = <<>>
    /\ heard' = <<>>
    /\ published' = <<>>
    /\ attempts' = 0
    /\ UNCHANGED cycle

\* wifiFailCount++, saved; at the limit the credentials are erased.
WiFiFailed(then) ==
    IF wifiFailCount + 1 >= WIFI_FAIL_LIMIT
    THEN ResetWiFiCredentials
    ELSE /\ wifiFailCount' = wifiFailCount + 1
         /\ streak' = IF streak < WIFI_FAIL_LIMIT THEN streak + 1 ELSE streak
         /\ UNCHANGED credentials
         /\ then

\* setup(): provisionWiFi() connects with the saved credentials or through
\* the captive portal, or the portal times out; then loop() starts.
Setup ==
    /\ phase = "boot"
    /\ \/ /\ credentials' = TRUE
          /\ wifiFailCount' = 0
          /\ streak' = 0
          /\ EnterScan
       \/ WiFiFailed(EnterScan)
    /\ UNCHANGED <<backendVars, linkVars>>

\* ScanCallbacks::onResult(device), called during pBLEScan->start()
ScanResult(a) ==
    /\ phase = "scan"
    /\ Audible(a)
    /\ IF Accepts(a)
       THEN /\ detections' = Buffer(detections, FacIdOf(a), TagIdOf(a), a.rssi, cycle)
            /\ heard' = Hear(heard, FacIdOf(a), TagIdOf(a), a.rssi)
       ELSE UNCHANGED <<detections, heard>>
    /\ UNCHANGED <<phase, wifiFailCount, credentials, attempts, published, cycle, streak>>
    /\ UNCHANGED <<backendVars, linkVars>>

\* The scan is over: with nothing detected the cycle goes to sleep.
ScanEnd ==
    /\ phase = "scan"
    /\ phase' = IF detections = <<>> THEN "sleep" ELSE "wifi"
    /\ UNCHANGED <<detections, wifiFailCount, credentials, attempts, heard, published,
                   cycle, streak>>
    /\ UNCHANGED <<backendVars, linkVars>>

\* Step 2 of loop(): WiFi.status() is connected, or WiFi.reconnect() brings
\* it back within the wait, or it does not.
EnsureWiFi ==
    /\ phase = "wifi"
    /\ \/ /\ phase' = "mqtt"
          /\ streak' = 0
          /\ UNCHANGED <<wifiFailCount, credentials, detections, heard, published,
                         attempts, cycle>>
       \/ /\ phase' = "mqtt"
          /\ wifiFailCount' = 0
          /\ streak' = 0
          /\ UNCHANGED <<credentials, detections, heard, published, attempts, cycle>>
       \/ WiFiFailed(/\ phase' = "sleep"
                     /\ UNCHANGED <<detections, heard, published, attempts, cycle>>)
    /\ UNCHANGED <<backendVars, linkVars>>

\* connectMQTT(): already connected, or connected at the k-th attempt, or
\* MQTT_RETRY_MAX attempts failed.
ConnectMQTT ==
    /\ phase = "mqtt"
    /\ \E k \in 0..MQTT_RETRY_MAX : \E ok \in BOOLEAN :
        /\ k = 0 => ok
        /\ ~ok => k = MQTT_RETRY_MAX
        /\ attempts' = attempts + k
        /\ phase' = IF ok THEN "publish" ELSE "sleep"
    /\ UNCHANGED <<detections, wifiFailCount, credentials, heard, published, cycle, streak>>
    /\ UNCHANGED <<backendVars, linkVars>>

\* Step 4: for (i < detectionCount) publishDetection(detections[i])
Publish ==
    /\ phase = "publish"
    /\ published' = detections
    /\ phase' = "sleep"
    /\ UNCHANGED <<detections, wifiFailCount, credentials, attempts, heard, cycle, streak>>
    /\ UNCHANGED <<backendVars, linkVars>>

\* Step 5: the sleep ends, loop() returns and is called again.
Sleep ==
    /\ phase = "sleep"
    /\ EnterScan
    /\ UNCHANGED <<wifiFailCount, credentials, streak>>
    /\ UNCHANGED <<backendVars, linkVars>>

NextS ==
    \/ Setup
    \/ \E a \in Adverts : ScanResult(a)
    \/ ScanEnd
    \/ EnsureWiFi
    \/ ConnectMQTT
    \/ Publish
    \/ Sleep

SpecS == Init /\ [][NextS]_vars

-----------------------------------------------------------------------------
(* Properties of the scanner *)

\* The strongest RSSI among advertisements, and the tag of the first
\* advertisement that has it
MaxRssi(ads) ==
    CHOOSE r \in { ads[i].rssi : i \in 1..Len(ads) } :
        \A i \in 1..Len(ads) : ads[i].rssi <= r

TagOfFirstMax(ads) ==
    ads[CHOOSE i \in 1..Len(ads) :
            /\ ads[i].rssi = MaxRssi(ads)
            /\ \A j \in 1..(i - 1) : ads[j].rssi # MaxRssi(ads)].tagId

EntriesOf(dets, id) == { i \in 1..Len(dets) : dets[i].facultyId = id }

\* The emit phase of this cycle has published.
Emitted == phase = "sleep" /\ published # <<>>

\* C15: for every facultyId heard in the cycle and buffered, the buffer holds
\* exactly one entry, with the strongest RSSI heard and the tagId of the first
\* advertisement at that RSSI, and the emit phase publishes that entry once.
C15_CycleDedup ==
    \A n \in 1..Len(heard) :
        LET id == heard[n].facultyId
            ads == heard[n].ads
        IN EntriesOf(detections, id) # {} =>
             /\ \E i \in 1..Len(detections) :
                  /\ EntriesOf(detections, id) = {i}
                  /\ detections[i].rssi = MaxRssi(ads)
                  /\ detections[i].tagId = TagOfFirstMax(ads)
                  /\ Emitted =>
                       \E j \in 1..Len(published) :
                          /\ EntriesOf(published, id) = {j}
                          /\ published[j] = detections[i]

\* Wearer 1 was heard three times, the two strongest readings equal, and the
\* cycle has published.
C15_Witness ==
    /\ Emitted
    /\ Len(heard[1].ads) = 3
    /\ heard[1].ads[2].rssi = heard[1].ads[3].rssi
    /\ heard[1].ads[2].rssi = MaxRssi(heard[1].ads)
    /\ heard[1].ads[2].tagId # heard[1].ads[3].tagId

\* More distinct facultyIds were heard in this cycle than the buffer holds.
Overflow == Len(heard) > MAX_DETECTIONS

\* C16: when more than MAX_DETECTIONS distinct facultyIds are heard in a
\* cycle, the buffer holds the first MAX_DETECTIONS of them, a further new id
\* changes nothing and leaves the scan running, entries of buffered ids are
\* still kept at their strongest reading, and exactly MAX_DETECTIONS
\* detections are published.
C16_OverflowSafe ==
    [][ /\ Overflow' =>
            /\ Len(detections') = MAX_DETECTIONS
            /\ \A i \in 1..MAX_DETECTIONS :
                  /\ detections'[i].facultyId = heard'[i].facultyId
                  /\ detections'[i].rssi = MaxRssi(heard'[i].ads)
            /\ Emitted' => Len(published') = MAX_DETECTIONS
        /\ (Len(detections) = MAX_DETECTIONS /\ Len(heard') > Len(heard)) =>
              (detections' = detections /\ phase' = "scan") ]_vars

\* Eleven wearers were heard, wearer 1 again after the buffer was full, and
\* ten detections were published.
C16_Witness ==
    /\ Overflow
    /\ Emitted
    /\ Len(published) = MAX_DETECTIONS
    /\ Len(heard[1].ads) > 1
    /\ published[1].rssi = -50

\* C17: the buffer and what is published hold detections of the current cycle
\* only: a detection is published in the cycle that collected it or never.
C17_NothingQueued ==
    /\ \A i \in 1..Len(detections) : detections[i].cyc = cycle
    /\ \A i \in 1..Len(published) : published[i].cyc = cycle

\* A cycle publishes its detections after an earlier cycle lost its own to a
\* WiFi failure (of two counted failures at most one happened in setup()).
C17_Witness ==
    /\ Emitted
    /\ wifiFailCount >= 2

\* C18: a cycle makes at most MQTT_RETRY_MAX connection attempts, leaves its
\* emit phase for its sleep phase only, and its sleep phase for a new scan.
C18_BoundedRetries ==
    [][ /\ attempts' <= MQTT_RETRY_MAX
        /\ phase \in {"wifi", "mqtt", "publish"} =>
              phase' \in {"wifi", "mqtt", "publish", "sleep"}
        /\ phase = "sleep" => phase' = "scan" ]_vars

\* C19: once running its scan loop, the scanner is never restarted.
C19_NeverRestarts == [][ phase # "boot" => phase' # "boot" ]_vars

\* C20: the saved credentials are erased only by the WIFI_FAIL_LIMIT-th of
\* WiFi failures in consecutive cycles.
C20_ConsecutiveFailures ==
    [][ (credentials /\ ~credentials') => streak + 1 >= WIFI_FAIL_LIMIT ]_vars

\* The manufacturer data starts with "FAC_" and holds a '|'.
C24_Tagged(a) ==
    /\ a.hasData
    /\ Len(a.data) >= 4
    /\ SubSeq(a.data, 1, 4) = <<"F", "A", "C", "_">>
    /\ \E i \in 1..Len(a.data) : a.data[i] = "|"

\* x is split at its first '|' into id and tag.
C24_Split(x, id, tag) ==
    \E i \in 1..Len(x) :
        /\ x[i] = "|"
        /\ \A j \in 1..(i - 1) : x[j] # "|"
        /\ id = SubSeq(x, 1, i - 1)
        /\ tag = SubSeq(x, i + 1, Len(x))

\* C24: an advertisement changes the buffer only if its manufacturer data
\* starts with "FAC_" and contains '|'; any other leaves the buffer and its
\* count as they were.  An entry written for an advertisement holds the text
\* before the first '|' as facultyId, the text after it as tagId, and its
\* RSSI, and no other entry changes.
C24_PayloadFilter ==
    [][ \A a \in Adverts : ScanResult(a) =>
          /\ ~C24_Tagged(a) => detections' = detections
          /\ detections' # detections =>
                \E i \in 1..Len(detections') :
                    /\ C24_Split(a.data, detections'[i].facultyId, detections'[i].tagId)
                    /\ detections'[i].rssi = a.rssi
                    /\ Len(detections') \in {Len(detections), i}
                    /\ \A j \in 1..Len(detections) : j # i => detections'[j] = detections[j]
      ]_vars

\* Wearer 1's second tag replaced the first entry's tag, and wearer 2 was
\* buffered behind it.
C24_Witness ==
    /\ phase = "scan"
    /\ Len(detections) = 2
    /\ detections[1].facultyId = <<"F", "A", "C", "_", "1">>
    /\ detections[1].tagId = <<"T", "A", "G", "_", "b">>
    /\ detections[2].facultyId = <<"F", "A", "C", "_", "2">>
    /\ detections[2].tagId = <<"T", "A", "G", "_", "2">>

\* C30: the buffer never holds more than MAX_DETECTIONS entries, its
\* facultyIds are pairwise distinct, and while a scan runs an entry keeps its
\* place and facultyId and its rssi never goes down.
C30_BufferInvariant ==
    /\ [](/\ Len(detections) \in 0..MAX_DETECTIONS
          /\ \A i, j \in 1..Len(detections) :
                i # j => detections[i].facultyId # detections[j].facultyId)
    /\ [][ (phase = "scan" /\ phase' = "scan") =>
              \A i \in 1..Len(detections) :
                  /\ i <= Len(detections')
                  /\ detections'[i].facultyId = detections[i].facultyId
                  /\ detections'[i].rssi >= detections[i].rssi ]_vars

\* The buffer is full, and wearer 1 was heard stronger and then weaker after
\* it filled up.
C30_Witness ==
    /\ phase = "scan"
    /\ Len(detections) = MAX_DETECTIONS
    /\ Len(heard) = MAX_DETECTIONS
    /\ Len(heard[1].ads) = 3
    /\ heard[1].ads[3].rssi < heard[1].ads[2].rssi
    /\ detections[1].rssi = heard[1].ads[2].rssi

-----------------------------------------------------------------------------
(* Properties of the validator's order and range *)

\* The detection passes steps 1 to 3 of the validator: every required field
\* is present, the ids and the room are strings, rssi is a number.
C25_WellTyped(d) ==
    /\ IsString(d.facultyId) /\ d.facultyId.s # <<>>
    /\ IsString(d.room) /\ d.room.s # <<>>
    /\ IsString(d.scannerId) /\ d.scannerId.s # <<>>
    /\ d.rssi.t = "number"

\* C25: the prefix is required of the ids as received, before the range check
\* and before trimming: a well-typed detection whose facultyId or scannerId
\* does not begin with its prefix is rejected, and the logged reason is the
\* bad format, whatever its rssi and whatever trimming would yield.
C25_FormatFirst ==
    [][ (Handled /\ inbox.kind = "object" /\ C25_WellTyped(inbox.det)
           /\ (\/ ~StartsWith(inbox.det.facultyId.s, FAC_PREFIX)
               \/ ~StartsWith(inbox.det.scannerId.s, SC_PREFIX))) =>
          /\ NotUpserted
          /\ mqttLog' = IF ~StartsWith(inbox.det.facultyId.s, FAC_PREFIX)
                        THEN "invalid_facultyId" ELSE "invalid_scannerId" ]_vars

\* Apart from its rssi the detection is valid: ids with their prefixes, a
\* room that is not blank.
C26_OtherwiseValid(d) ==
    /\ C25_WellTyped(d)
    /\ StartsWith(Trim(d.facultyId.s), FAC_PREFIX)
    /\ StartsWith(Trim(d.scannerId.s), SC_PREFIX)
    /\ Trim(d.room.s) # <<>>

\* The upsert issued in this step.
C26_Issued(h) == h \in Calls' /\ inflight' = inflight (+) SetToBag({h})

\* C26: the range is inclusive at both ends.  An otherwise valid detection
\* with rssi 0 or -120 is accepted and its upsert carries that rssi; with
\* rssi 1 or -121 it is rejected.  A write that the database applies stores
\* the rssi of its upsert.
C26_InclusiveRange ==
    [][ /\ (Handled /\ inbox.kind = "object" /\ C26_OtherwiseValid(inbox.det)) =>
            /\ inbox.det.rssi.n \in {RSSI_MIN, RSSI_MAX} =>
                  /\ messageCount' = messageCount + 1
                  /\ errorCount' = errorCount
                  /\ \E h \in Calls' : C26_Issued(h) /\ h.pc = "find"
                                         /\ h.set.rssi = inbox.det.rssi.n
            /\ inbox.det.rssi.n \in {RSSI_MIN - 1, RSSI_MAX + 1} =>
                  /\ NotUpserted
                  /\ errorCount' = errorCount + 1
        /\ \A h \in Calls : Settles(h, "ok") =>
              \E d \in store' : d.facultyId = h.key /\ d.rssi = h.set.rssi
      ]_vars

\* Detections at both ends of the range were handled: one with rssi 0 is
\* stored, or one with rssi -120 is.
C26_Witness ==
    /\ inbox = None
    /\ messageCount = 1
    /\ mqttLog = "db_updated"
    /\ \E d \in store : d.facultyId = sFAC1 /\ d.rssi \in {RSSI_MIN, RSSI_MAX}

-----------------------------------------------------------------------------
(* services/serialScannerListener.js: the listener's connection handling.    *)
(* A SerialPort object is "opening" after open() was called, then "open";    *)
(* close() on an open port makes it "closing" until its 'close' event; a     *)
(* port that failed to open or was closed is "closed".  The callbacks of     *)
(* every port object stay registered, whichever port serialPort names.       *)

MAX_RECONNECT_ATTEMPTS == 3

\* 'error' events one port object may emit
MaxPortErrors == 1

NewPort == [state |-> "opening", errors |-> 0]

\* serialPort.close() as called by the listener: an open port starts closing
ClosePort(ps, p) ==
    IF ps[p].state = "open" THEN [ps EXCEPT ![p].state = "closing"] ELSE ps

\* Faulty variant: a pending timer does not hold back a second one.
ScheduleReconnect_noGuard ==
    /\ reconnectAttempts' = reconnectAttempts + 1
    /\ IF reconnectAttempts + 1 > MAX_RECONNECT_ATTEMPTS
       THEN UNCHANGED <<reconnectTimer, timers>>
       ELSE /\ reconnectTimer' = TRUE
            /\ timers' = timers + 1

\* scheduleReconnect()
ScheduleReconnect ==
    IF reconnectTimer
    THEN UNCHANGED <<reconnectTimer, timers, reconnectAttempts>>
    ELSE /\ reconnectAttempts' = reconnectAttempts + 1
         /\ IF reconnectAttempts + 1 > MAX_RECONNECT_ATTEMPTS
            THEN UNCHANGED <<reconnectTimer, timers>>
            ELSE /\ reconnectTimer' = TRUE
                 /\ timers' = timers + 1

\* handleDisconnect(), with ps the ports as the event left them
HandleDisconnect(ps) ==
    /\ isConnected' = FALSE
    /\ IF serialPort # 0
       THEN /\ ports' = ClosePort(ps, serialPort)
            /\ serialPort' = 0
       ELSE /\ ports' = ps
            /\ UNCHANGED serialPort
    /\ ScheduleReconnect

\* The body of startSerialListener(): a new port object, open() called.
OpenNewPort ==
    /\ ports' = Append(ports, NewPort)
    /\ serialPort' = Len(ports) + 1

\* startSerialListener(), called by the server
StartSerialListener ==
    /\ ports = <<>>
    /\ ~stopped
    /\ OpenNewPort
    /\ UNCHANGED <<isConnected, reconnectTimer, timers, reconnectAttempts, stopped>>
    /\ UNCHANGED <<backendVars, scannerVars, mqttVars>>

\* serialPort.on('open'): the port p opened
PortOpen(p) ==
    /\ ports[p].state = "opening"
    /\ ports' = [ports EXCEPT ![p].state = "open"]
    /\ isConnected' = TRUE
    /\ reconnectTimer' = FALSE
    /\ timers' = IF reconnectTimer THEN timers - 1 ELSE timers
    /\ UNCHANGED <<serialPort, reconnectAttempts, stopped>>
    /\ UNCHANGED <<backendVars, scannerVars, mqttVars>>

\* serialPort.open((err) => ...) with err: the port p could not be opened
PortOpenFailed(p) ==
    /\ ports[p].state = "opening"
    /\ ports' = [ports EXCEPT ![p].state = "closed"]
    /\ ScheduleReconnect
    /\ UNCHANGED <<serialPort, isConnected, stopped>>
    /\ UNCHANGED <<backendVars, scannerVars, mqttVars>>

\* serialPort.on('error') of the port p
PortError(p) ==
    /\ ports[p].errors < MaxPortErrors
    /\ HandleDisconnect([ports EXCEPT ![p].errors = @ + 1])
    /\ UNCHANGED stopped
    /\ UNCHANGED <<backendVars, scannerVars, mqttVars>>

\* serialPort.on('close') of the port p: the device went away, or a close()
\* completed
PortClose(p) ==
    /\ ports[p].state \in {"open", "closing"}
    /\ HandleDisconnect([ports EXCEPT ![p].state = "closed"])
    /\ UNCHANGED stopped
    /\ UNCHANGED <<backendVars, scannerVars, mqttVars>>

\* The reconnect timer fires: reconnectTimer = null; startSerialListener()
ReconnectTimerFires ==
    /\ timers > 0
    /\ timers' = timers - 1
    /\ reconnectTimer' = FALSE
    /\ OpenNewPort
    /\ UNCHANGED <<isConnected, reconnectAttempts, stopped>>
    /\ UNCHANGED <<backendVars, scannerVars, mqttVars>>

\* stopSerialListener()
StopSerialListener ==
    /\ reconnectTimer' = FALSE
    /\ timers' = IF reconnectTimer THEN timers - 1 ELSE timers
    /\ ports' = IF serialPort # 0 THEN ClosePort(ports, serialPort) ELSE ports
    /\ isConnected' = FALSE
    /\ stopped' = TRUE
    /\ UNCHANGED <<serialPort, reconnectAttempts>>
    /\ UNCHANGED <<backendVars, scannerVars, mqttVars>>

NextL ==
    \/ StartSerialListener
    \/ \E p \in 1..Len(ports) : PortOpen(p)
    \/ \E p \in 1..Len(ports) : PortOpenFailed(p)
    \/ \E p \in 1..Len(ports) : PortError(p)
    \/ \E p \in 1..Len(ports) : PortClose(p)
    \/ ReconnectTimerFires
    \/ StopSerialListener

SpecL == Init /\ [][NextL]_vars

\* The listener was started and not stopped, and is idle: no port object is
\* opening, open or closing.
ListenerIdle ==
    /\ ports # <<>>
    /\ ~stopped
    /\ \A p \in 1..Len(ports) : ports[p].state = "closed"

\* C23: the backend never gives up reconnecting an ingestion transport: while
\* the serial listener runs and has no port, a reconnect attempt is pending.
C23_KeepsRetrying == ListenerIdle => timers > 0

\* C28: once stopSerialListener has been called, whatever the ports report
\* afterwards, no reconnect timer is pending, no listener is started and
\* isSerialConnected() is false.
C28_StopIsFinal ==
    [][ stopped => (timers' = 0 /\ Len(ports') = Len(ports) /\ ~isConnected') ]_vars

\* C29: at most one reconnect timer is pending at any time, reconnectTimer
\* holds its handle exactly then, and the firing of a timer starts exactly
\* one listener.
C29_OneTimer ==
    /\ [](timers <= 1 /\ (reconnectTimer <=> timers = 1))
    /\ [][ ReconnectTimerFires =>
              (Len(ports') = Len(ports) + 1 /\ timers' = 0 /\ ~reconnectTimer') ]_vars

\* A disconnect was reported twice, by 'error' and by 'close' of the same
\* port, while the timer of the first report was pending.
C29_Witness ==
    /\ timers = 1
    /\ reconnectAttempts = 1
    /\ Len(ports) = 1
    /\ ports[1].state = "closed"
    /\ ports[1].errors = 1
    /\ ~stopped

-----------------------------------------------------------------------------
(* The MQTT transport: services/mqttService.js startMqttClient and its event *)
(* handlers, stopMqttClient, and publishDetection of the firmware.  The      *)
(* broker routes a publication to the sessions whose topic filter matches    *)
(* its topic.  The firmware publishes at QoS 0 and the backend's session is  *)
(* clean, so the broker keeps nothing for a connection that is gone.         *)

\* Faulty variant: the single topic of the service's first version.
TOPIC_single == <<"c", "a", "m", "p", "u", "s", "n", "a", "v", "/", "f", "a", "c", "u", "l", "t", "y">>

\* const TOPIC = "campusnav/faculty/+"
TOPIC == <<"c", "a", "m", "p", "u", "s", "n", "a", "v", "/", "f", "a", "c", "u", "l", "t", "y", "/", "+">>

\* The prefix of "campusnav/faculty/%s" and the size of mqttTopic
TOPIC_BASE == <<"c", "a", "m", "p", "u", "s", "n", "a", "v", "/", "f", "a", "c", "u", "l", "t", "y", "/">>

TOPIC_SIZE == 64

\* #define SCANNER_ID "SC_D103", #define ROOM_NAME "D103"
SCANNER_ID == <<"S", "C", "_", "D", "1", "0", "3">>

ROOM_NAME == <<"D", "1", "0", "3">>

\* The scanners deployed, each built with its own SCANNER_ID
ScannerIds == {SCANNER_ID, sSCA}

\* Publications made in all
MaxPublished == 2

\* snprintf(mqttTopic, sizeof(mqttTopic), "campusnav/faculty/%s", SCANNER_ID)
PublishTopic(id) ==
    LET t == TOPIC_BASE \o id IN
    IF Len(t) < TOPIC_SIZE THEN t ELSE SubSeq(t, 1, TOPIC_SIZE - 1)

\* The levels of a topic: its parts between the '/'
RECURSIVE Levels(_)
Levels(x) ==
    LET i == IndexOf(x, "/") IN
    IF i = -1 THEN <<x>>
    ELSE <<Substring(x, 0, i)>> \o Levels(SubstringFrom(x, i + 1))

\* The broker's test of a topic against a subscription's filter: '+' stands
\* for one level, a final '#' for any number of levels.
RECURSIVE LevelsMatch(_, _)
LevelsMatch(f, t) ==
    IF f = <<>> THEN t = <<>>
    ELSE IF Head(f) = <<"#">> THEN Len(f) = 1
    ELSE IF t = <<>> THEN FALSE
    ELSE /\ Head(f) = <<"+">> \/ Head(f) = Head(t)
         /\ LevelsMatch(Tail(f), Tail(t))

TopicMatches(filter, topic) == LevelsMatch(Levels(filter), Levels(topic))

\* The JSON document publishDetection serializes for a detection of FAC_1
PublishedPayload(sc) ==
    Payload("object", Det(Str(sFAC1), Str(sT1), Str(sc), Str(ROOM_NAME), Num(-70)))

\* The backend's session at the broker is live.
Subscribed == subscription.state = "granted"

\* startMqttClient(), called once by the server when MongoDB is connected:
\* mqtt.connect(...) and the handlers, unless MQTT_URL, MQTT_USER or MQTT_PASS
\* is not set.
StartMqttClient ==
    /\ ~mqttStarted
    /\ mqttStarted' = TRUE
    /\ client' \in {"null", "active"}
    /\ UNCHANGED <<connected, lastEvent, subscription, online, wire, sent, delivered>>
    /\ UNCHANGED <<backendVars, scannerVars, serialVars>>

\* client.on("connect"): a connection is up, the first or a later one
MqttConnect ==
    /\ client = "active"
    /\ subscription.state = "none"
    /\ connected' = TRUE
    /\ lastEvent' = "connect"
    /\ subscription' = [filter |-> TOPIC, state |-> "requested"]
    /\ UNCHANGED <<mqttStarted, client, online, wire, sent, delivered>>
    /\ UNCHANGED <<backendVars, scannerVars, serialVars>>

\* The subscribe callback: the broker granted the subscription, or refused it
MqttSubscribed ==
    /\ client = "active"
    /\ subscription.state = "requested"
    /\ \/ subscription' = [subscription EXCEPT !.state = "granted"]
       \/ subscription' = [subscription EXCEPT !.state = "refused"]
    /\ UNCHANGED <<mqttStarted, client, connected, lastEvent, online, wire, sent, delivered>>
    /\ UNCHANGED <<backendVars, scannerVars, serialVars>>

\* client.on("close"): the connection is gone, and with it the clean session
\* and what was on its way
MqttClose ==
    /\ client = "active" \/ (client = "ended" /\ subscription.state # "none")
    /\ connected' = FALSE
    /\ lastEvent' = "close"
    /\ subscription' = NoSubscription
    /\ wire' = {}
    /\ UNCHANGED <<mqttStarted, client, online, sent, delivered>>
    /\ UNCHANGED <<backendVars, scannerVars, serialVars>>

\* client.on("reconnect")
MqttReconnect ==
    /\ client = "active"
    /\ connected' = FALSE
    /\ lastEvent' = "reconnect"
    /\ UNCHANGED <<mqttStarted, client, subscription, online, wire, sent, delivered>>
    /\ UNCHANGED <<backendVars, scannerVars, serialVars>>

\* Faulty variant: the handler does not clear the flag.
MqttOffline_keep ==
    /\ client = "active"
    /\ connected' = connected
    /\ lastEvent' = "offline"
    /\ UNCHANGED <<mqttStarted, client, subscription, online, wire, sent, delivered>>
    /\ UNCHANGED <<backendVars, scannerVars, serialVars>>

\* client.on("offline")
MqttOffline ==
    /\ client = "active"
    /\ connected' = FALSE
    /\ lastEvent' = "offline"
    /\ UNCHANGED <<mqttStarted, client, subscription, online, wire, sent, delivered>>
    /\ UNCHANGED <<backendVars, scannerVars, serialVars>>

\* stopMqttClient(): if (client) { client.end(true); connected = false }
StopMqttClient ==
    /\ IF client # "null"
       THEN /\ client' = "ended"
            /\ connected' = FALSE
            /\ lastEvent' = "stop"
       ELSE UNCHANGED <<client, connected, lastEvent>>
    /\ UNCHANGED <<mqttStarted, subscription, online, wire, sent, delivered>>
    /\ UNCHANGED <<backendVars, scannerVars, serialVars>>

\* connectMQTT() of the scanner sc succeeds
ScannerConnect(sc) ==
    /\ sc \notin online
    /\ online' = online \cup {sc}
    /\ UNCHANGED <<mqttStarted, client, connected, lastEvent, subscription, wire, sent, delivered>>
    /\ UNCHANGED <<backendVars, scannerVars, serialVars>>

\* The scanner sc loses its connection to the broker.
ScannerDisconnect(sc) ==
    /\ sc \in online
    /\ online' = online \ {sc}
    /\ UNCHANGED <<mqttStarted, client, connected, lastEvent, subscription, wire, sent, delivered>>
    /\ UNCHANGED <<backendVars, scannerVars, serialVars>>

\* publishDetection(det) on the scanner sc: mqttClient.publish(mqttTopic,
\* buffer, false), which the broker forwards to the backend's session if its
\* filter matches.  The publication is noted with whether the backend was
\* connected and subscribed.
PublishDetection(sc) ==
    /\ sc \in online
    /\ Cardinality(sent) < MaxPublished
    /\ LET m == [id |-> Cardinality(sent) + 1, scanner |-> sc] IN
       /\ sent' = sent \cup {[id |-> m.id, scanner |-> sc, covered |-> Subscribed]}
       /\ wire' = IF Subscribed /\ TopicMatches(subscription.filter, PublishTopic(sc))
                  THEN wire \cup {m} ELSE wire
    /\ UNCHANGED <<mqttStarted, client, connected, lastEvent, subscription, online, delivered>>
    /\ UNCHANGED <<backendVars, scannerVars, serialVars>>

\* client.on("message"): the publication m arrives and handleMessage runs
MqttDeliver(m) ==
    /\ client = "active"
    /\ m \in wire
    /\ wire' = wire \ {m}
    /\ delivered' = delivered \cup {m.id}
    /\ HandleMessage(PublishedPayload(m.scanner))
    /\ UNCHANGED <<inbox, serialVars>>
    /\ UNCHANGED <<mqttStarted, client, connected, lastEvent, subscription, online, sent>>

NextM ==
    \/ StartMqttClient
    \/ MqttConnect
    \/ MqttSubscribed
    \/ MqttClose
    \/ MqttReconnect
    \/ MqttOffline
    \/ StopMqttClient
    \/ \E sc \in ScannerIds : ScannerConnect(sc)
    \/ \E sc \in ScannerIds : ScannerDisconnect(sc)
    \/ \E sc \in ScannerIds : PublishDetection(sc)
    \/ \E m \in wire : MqttDeliver(m)

SpecM == Init /\ [][NextM]_vars

\* The publication is still on its way to the backend.
OnTheWire(id) == \E m \in wire : m.id = id

\* C21: a publication made while its scanner was connected to the broker and
\* the backend was connected and subscribed is not lost: until the message
\* handler has had it, it is still on its way.
C21_NotLost ==
    \A m \in sent : m.covered => (m.id \in delivered \/ OnTheWire(m.id))

\* C22: every connect event of the backend's client requests a subscription
\* to campusnav/faculty/+, which the publish topic of every scanner matches,
\* and a publication made while the subscription is granted is forwarded to
\* the backend.
C22_SubscribesToAll ==
    [][ /\ (~connected /\ connected') =>
              /\ subscription'.state = "requested"
              /\ Levels(subscription'.filter)
                    = << <<"c", "a", "m", "p", "u", "s", "n", "a", "v">>, <<"f", "a", "c", "u", "l", "t", "y">>, <<"+">> >>
              /\ \A sc \in ScannerIds :
                    TopicMatches(subscription'.filter, PublishTopic(sc))
        /\ \A sc \in ScannerIds :
              (PublishDetection(sc) /\ Subscribed) =>
                  \E m \in wire' : m.id = Cardinality(sent') /\ m.scanner = sc
      ]_vars

\* A first publication was lost with the connection; after the reconnect and
\* its subscription, the other scanner's publication reached the handler.
C22_Witness ==
    /\ Subscribed
    /\ connected
    /\ \E m1, m2 \in sent :
          /\ m1.id = 1 /\ m1.covered /\ 1 \notin delivered
          /\ m2.id = 2 /\ m2.covered /\ 2 \in delivered
          /\ m1.scanner # m2.scanner

\* C27: isMqttConnected() is true exactly when the latest lifecycle event of
\* the client was connect: false before startMqttClient, after reconnect,
\* close and offline, and after stopMqttClient.
C27_TracksLifecycle ==
    /\ connected <=> lastEvent = "connect"
    /\ ~mqttStarted => ~connected
    /\ client # "active" => ~connected

\* The client was connected and took a message, was stopped, and its close
\* event followed.
C27_Witness ==
    /\ client = "ended"
    /\ lastEvent = "close"
    /\ ~connected
    /\ delivered # {}

=============================================================================
